---- MODULE Spec2Model ----
(***************************************************************************)
(* ZenLedger: the localStorage-backed service layer (storageService.ts)    *)
(* together with the client state of App.tsx that feeds it (the session    *)
(* the client holds) and the balance fold of App.tsx.                      *)
(*                                                                         *)
(* Strings that the code normalises (cluster id, handle) are sequences of  *)
(* one-character strings, so that trim() and toLowerCase() are computed.   *)
(* Optional values (Session | null, parentId?) are sequences of length at  *)
(* most one.  Date.now() is the variable now, in milliseconds.             *)
(***************************************************************************)
EXTENDS Integers, Sequences, FiniteSets, TLC

VARIABLES users, txs, reqs, msgs, stored, session, now, last, unparseable

vars == <<users, txs, reqs, msgs, stored, session, now, last, unparseable>>

----------------------------------------------------------------------------
(* Bounds of the model: the caps of the collections, the clock readings  *)
(* past 0 and past the expiry, and the number of random strings.        *)

MaxUsers == 3
MaxTxs == 3
MaxReqs == 1
MaxSlack == 1
MaxOnce == 1
MaxRecords == 2
NumRand == 1

(* Program constants *)

SESSION_DURATION == 86400000

(* The localStorage keys.  unparseable is the set of the keys whose item *)
(* is not the JSON text the service wrote: JSON.parse throws on it.      *)
USERS_KEY == "zenledger_v21_users"

TRANSACTIONS_KEY == "zenledger_v21_transactions"

REQUESTS_KEY == "zenledger_v21_requests"

MESSAGES_KEY == "zenledger_v21_messages"

SESSION_KEY == "zenledger_v21_session"

Keys == {USERS_KEY, TRANSACTIONS_KEY, REQUESTS_KEY, MESSAGES_KEY, SESSION_KEY}

MaxNow == SESSION_DURATION + MaxSlack

----------------------------------------------------------------------------
(* Enumerations of types.ts *)

UserRole == {"HOST", "MEMBER"}

TransactionType == {"CREDIT", "DEBIT"}

RequestStatus == {"PENDING", "APPROVED", "REJECTED"}

----------------------------------------------------------------------------
(* String.prototype.trim and toLowerCase on character sequences *)

Whitespace == {" "}

toLowerCase(s) ==
    [i \in 1..Len(s) |->
        CASE s[i] = "A" -> "a"
          [] s[i] = "B" -> "b"
          [] s[i] = "F" -> "f"
          [] s[i] = "G" -> "g"
          [] OTHER -> s[i]]

RECURSIVE trimStart(_)
trimStart(s) ==
    IF s # <<>> /\ Head(s) \in Whitespace THEN trimStart(Tail(s)) ELSE s

RECURSIVE trimEnd(_)
trimEnd(s) ==
    IF s # <<>> /\ s[Len(s)] \in Whitespace
    THEN trimEnd(SubSeq(s, 1, Len(s) - 1)) ELSE s

trim(s) == trimEnd(trimStart(s))

Normalize(s) == toLowerCase(trim(s))

----------------------------------------------------------------------------
(* Inputs *)

FamilyInputs == {<<"f">>, <<" ", "F">>, <<"g">>}

HandleInputs == {<<"a">>, <<"A", " ">>, <<"b">>}

PassInputs == {"p", "q"}

Amounts == {3, 5}

(* What a caller may hand over as an amount and as a reason: a negative *)
(* number, zero, the empty string                                       *)
AmountInputs == {0 - 5, 0, 5}

ReasonInputs == {"", "books"}

----------------------------------------------------------------------------
(* Record ids.  `u_${Date.now()}` is <<"u", "time", now>>; the id built    *)
(* from Math.random() is <<"u", "rand", k>> for the k-th random string.    *)

TimeId(prefix, t) == <<prefix, "time", t>>

RandId(prefix, k) == <<prefix, "rand", k>>

BroadcastId == <<"cluster", "", 0>>

UserIds == {users[i].id : i \in 1..Len(users)}

(* The id of the identity whose session the client holds *)
OwnId == {session[i].userId : i \in 1..Len(session)}

----------------------------------------------------------------------------
(* ServiceResponse<T> together with the call it answers: last is the      *)
(* response of the call that has just returned, at the clock reading now,  *)
(* with the arguments and the session it was given.                       *)

(* The response, had it reported failure whatever the call did *)
ResponseUnsuccessful(op, args, sess, ok, err, data) ==
    [op |-> op, args |-> args, sess |-> sess, success |-> FALSE, error |-> err,
     data |-> data, raised |-> FALSE]

Response(op, args, sess, ok, err, data) ==
    [op |-> op, args |-> args, sess |-> sess, success |-> ok, error |-> err,
     data |-> data, raised |-> FALSE]

(* The call did not return a value: JSON.parse threw a SyntaxError, which *)
(* no operation but getStoredSession catches                              *)
Raised(op, args, sess) ==
    [op |-> op, args |-> args, sess |-> sess, success |-> FALSE,
     error |-> "SyntaxError", data |-> <<>>, raised |-> TRUE]

NoCall == Response("none", <<>>, <<>>, TRUE, "", <<>>)

----------------------------------------------------------------------------
(* Decisions of the service *)

(* The lookup, had it compared the handle as it was typed *)
findUserByName(us, fid, username) ==
    \E i \in 1..Len(us) : us[i].familyId = fid /\ us[i].name = username

findUser(us, fid, username) ==
    \E i \in 1..Len(us) : us[i].familyId = fid /\ us[i].username = username

(* The role test, had it accepted every role *)
isAnyRole(s) == s.role \in UserRole

isHost(s) == s.role = "HOST"

(* The expiry test, had it been left out, had it been t >= exp, and had  *)
(* it held of every session                                             *)
neverExpired(s, t) == FALSE

isExpiredAtExp(s, t) == t >= s.exp

alwaysExpired(s, t) == TRUE

isExpired(s, t) == t > s.exp

(* The predicate of login's lookup, had it left the secret out *)
matchesAnySecret(u, fid, username, pass) ==
    u.familyId = fid /\ u.username = username

matchesLogin(u, fid, username, pass) ==
    u.familyId = fid /\ u.username = username /\ u.password = pass

(* The error of a refused login, had it told an unknown handle from a   *)
(* wrong secret                                                         *)
loginFailureByCause(us, fid, username) ==
    IF findUser(us, fid, username) THEN "Access Denied. Invalid secret."
                                   ELSE "Access Denied. Unknown identity."

(* The error of a refused login: one text, whatever the store holds and *)
(* whatever was typed                                                   *)
loginFailure(us, fid, username) ==
    "Access Denied. Invalid credentials or Cluster ID."

(* The write of a collection, had it kept the new record alone, and had *)
(* it let the oldest record go                                          *)
overwrite(x, list) == <<x>>

dropOldest(x, list) ==
    IF list = <<>> THEN <<x>> ELSE <<x>> \o SubSeq(list, 1, Len(list) - 1)

(* [x, ...list]: the new record first, then all that was read *)
prepend(x, list) == <<x>> \o list

(* Array.prototype.reduce, left to right, of the signed amounts *)
RECURSIVE reduceSigned(_, _)
reduceSigned(ts, acc) ==
    IF ts = <<>> THEN acc
    ELSE reduceSigned(Tail(ts),
                      IF Head(ts).type = "CREDIT" THEN acc + Head(ts).amount
                                                  ELSE acc - Head(ts).amount)

(* The owner filter, had it been left out *)
ownedByAnyone(t, uid) == TRUE

ownedBy(t, uid) == t.userId = uid

(* currentBalance of App.tsx: filter by owner, then reduce from 0 *)
balanceOf(ts, uid) ==
    reduceSigned(SelectSeq(ts, LAMBDA t : ownedBy(t, uid)), 0)

----------------------------------------------------------------------------
(* Numbers of the analytics.  A JavaScript number that comes out of a    *)
(* division is a fraction num/den with den > 0, or one of the values     *)
(* that a division by zero yields: NaN, Infinity, -Infinity.             *)

Num(n) == [is |-> "number", num |-> n, den |-> 1]

NaN == [is |-> "NaN", num |-> 0, den |-> 1]

Infinity(sign) == [is |-> "Infinity", num |-> sign, den |-> 1]

Sign(n) == IF n > 0 THEN 1 ELSE IF n < 0 THEN 0 - 1 ELSE 0

RECURSIVE Gcd(_, _)
Gcd(m, n) == IF n = 0 THEN m ELSE Gcd(n, m % n)

(* The number n/d with d > 0, in lowest terms: equal numbers are equal   *)
(* values                                                                *)
Fraction(n, d) ==
    LET g == Gcd(n * Sign(n), d)
    IN  [is |-> "number", num |-> n \div g, den |-> d \div g]

(* a / b on two fractions *)
Quotient(a, b) ==
    IF b.num = 0
    THEN IF a.num = 0 THEN NaN ELSE Infinity(Sign(a.num))
    ELSE Fraction(a.num * b.den * Sign(b.num), a.den * b.num * Sign(b.num))

(* a > 0 *)
Positive(a) == a.is = "number" /\ a.num > 0

(* Math.max(1, a) on a fraction *)
MaxOne(a) == IF a.num > a.den THEN a ELSE Num(1)

(* 1000 * 60 * 60 * 24 *)
MsPerDay == 86400000

----------------------------------------------------------------------------
(* GenuineFiscalInsights of App.tsx *)

debits(ts) == SelectSeq(ts, LAMBDA t : t.type = "DEBIT")

RECURSIVE reduceSum(_, _)
reduceSum(ts, sum) ==
    IF ts = <<>> THEN sum ELSE reduceSum(Tail(ts), sum + Head(ts).amount)

totalDebits(ts) == reduceSum(debits(ts), 0)

(* Math.min(...timestamps) of a sequence that is not empty *)
firstTx(ts) ==
    CHOOSE m \in {ts[i].timestamp : i \in 1..Len(ts)} :
        \A i \in 1..Len(ts) : m <= ts[i].timestamp

daysSinceStart(ts, t) == MaxOne(Quotient(Num(t - firstTx(ts)), Num(MsPerDay)))

burnRate(ts, t) == Quotient(Num(totalDebits(ts)), daysSinceStart(ts, t))

liquidityIndex(ts, balance, t) ==
    IF balance > 0 /\ Positive(burnRate(ts, t))
    THEN Quotient(Num(balance), burnRate(ts, t))
    ELSE Num(0)

(* The reduce into categoryTotals: a key per category of a debit *)
categoryTotals(ts) ==
    [c \in {debits(ts)[i].category : i \in 1..Len(debits(ts))} |->
        reduceSum(SelectSeq(debits(ts), LAMBDA t : t.category = c), 0)]

(* Object.values(categoryTotals).reduce((a, b) => a + b, 0) *)
RECURSIVE sumValues(_, _)
sumValues(f, keys) ==
    IF keys = {} THEN 0
    ELSE LET c == CHOOSE k \in keys : TRUE
         IN  f[c] + sumValues(f, keys \ {c})

totalSpending(ts) == sumValues(categoryTotals(ts), DOMAIN categoryTotals(ts))

(* a * n on a fraction and an integer n > 0 *)
Times(a, n) == IF a.is = "number" THEN Fraction(a.num * n, a.den) ELSE a

(* pieSlices: amount and percentage of every key of categoryTotals *)
pieSlices(ts) ==
    [c \in DOMAIN categoryTotals(ts) |->
        [amount |-> categoryTotals(ts)[c],
         percentage |->
            Times(Quotient(Num(categoryTotals(ts)[c]), Num(totalSpending(ts))), 100)]]

(* The comparator, had it put the latest first *)
compareLatestFirst(a, b) == b.timestamp - a.timestamp

(* The comparator of sortedTxs *)
compareFn(a, b) == a.timestamp - b.timestamp

(* Array.prototype.sort, which is stable: an element goes behind every  *)
(* element placed before it that the comparator does not put after it.  *)
RECURSIVE insertSorted(_, _)
insertSorted(sorted, x) ==
    IF sorted = <<>> THEN <<x>>
    ELSE IF compareFn(Head(sorted), x) > 0 THEN <<x>> \o sorted
    ELSE <<Head(sorted)>> \o insertSorted(Tail(sorted), x)

RECURSIVE sortInto(_, _)
sortInto(sorted, rest) ==
    IF rest = <<>> THEN sorted
    ELSE sortInto(insertSorted(sorted, Head(rest)), Tail(rest))

sortedTxs(ts) == sortInto(<<>>, ts)

(* The reduce into timeSeries: a point per transaction, each built on   *)
(* the balance of the point before it                                   *)
RECURSIVE reduceSeries(_, _)
reduceSeries(acc, rest) ==
    IF rest = <<>> THEN acc
    ELSE LET tx == Head(rest)
             lastBalance == IF Len(acc) > 0 THEN acc[Len(acc)].balance ELSE 0
             newBalance == IF tx.type = "CREDIT" THEN lastBalance + tx.amount
                                                 ELSE lastBalance - tx.amount
         IN  reduceSeries(Append(acc, [timestamp |-> tx.timestamp,
                                       balance |-> newBalance]),
                          Tail(rest))

timeSeries(ts) == reduceSeries(<<>>, sortedTxs(ts))

----------------------------------------------------------------------------
Init ==
    /\ users = <<>>
    /\ txs = <<>>
    /\ reqs = <<>>
    /\ msgs = <<>>
    /\ stored = <<>>
    /\ session = <<>>
    /\ now = 0
    /\ last = NoCall
    /\ unparseable = {}

(* storageService.signupCluster *)
signupCluster(familyId, handle, pass) ==
    LET args == [familyId |-> familyId, handle |-> handle, pass |-> pass]
        fid == Normalize(familyId)
        username == Normalize(handle)
        newUser == [id |-> TimeId("u", now), familyId |-> fid, name |-> handle,
                    username |-> username, password |-> pass, role |-> "HOST",
                    parentId |-> <<>>, isActive |-> TRUE]
    IN  /\ IF USERS_KEY \in unparseable
           THEN /\ last' = Raised("signupCluster", args, <<>>)
                /\ UNCHANGED users
           ELSE IF findUser(users, fid, username)
           THEN /\ last' = Response("signupCluster", args, <<>>, FALSE,
                     "Identity handle already provisioned in this cluster.", <<>>)
                /\ UNCHANGED users
           ELSE /\ users' = Append(users, newUser)
                /\ last' = Response("signupCluster", args, <<>>, TRUE, "", <<newUser>>)
        /\ UNCHANGED <<txs, reqs, msgs, stored, session, now, unparseable>>

(* storageService.provisionMember *)
provisionMember(s, username, pass, k) ==
    LET args == [username |-> username, pass |-> pass]
        handle == Normalize(username)
        newMember == [id |-> RandId("u", k), familyId |-> s.familyId,
                      name |-> username, username |-> handle, password |-> pass,
                      role |-> "MEMBER", parentId |-> <<s.userId>>,
                      isActive |-> TRUE]
    IN  /\ IF ~isHost(s)
           THEN /\ last' = Response("provisionMember", args, <<s>>, FALSE,
                     "Authorization restricted to Host Nodes.", <<>>)
                /\ UNCHANGED users
           ELSE IF USERS_KEY \in unparseable
           THEN /\ last' = Raised("provisionMember", args, <<s>>)
                /\ UNCHANGED users
           ELSE IF findUser(users, s.familyId, handle)
           THEN /\ last' = Response("provisionMember", args, <<s>>, FALSE,
                     "Member handle already provisioned.", <<>>)
                /\ UNCHANGED users
           ELSE /\ users' = Append(users, newMember)
                /\ last' = Response("provisionMember", args, <<s>>, TRUE, "", <<newMember>>)
        /\ UNCHANGED <<txs, reqs, msgs, stored, session, now, unparseable>>

(* storageService.login, and handleAuth's setSession on success *)
login(familyId, handle, pass) ==
    LET args == [familyId |-> familyId, handle |-> handle, pass |-> pass]
        fid == Normalize(familyId)
        username == Normalize(handle)
        found == {i \in 1..Len(users) : matchesLogin(users[i], fid, username, pass)}
    IN  /\ IF USERS_KEY \in unparseable
           THEN /\ last' = Raised("login", args, <<>>)
                /\ UNCHANGED <<stored, session, unparseable>>
           ELSE IF found = {}
           THEN /\ last' = Response("login", args, <<>>, FALSE,
                                    loginFailure(users, fid, username), <<>>)
                /\ UNCHANGED <<stored, session, unparseable>>
           ELSE LET user == users[CHOOSE i \in found : \A j \in found : i <= j]
                    newSession == [token |-> <<user.id, now>>, userId |-> user.id,
                                   familyId |-> user.familyId, role |-> user.role,
                                   exp |-> now + SESSION_DURATION]
                IN  /\ stored' = <<newSession>>
                    /\ unparseable' = unparseable \ {SESSION_KEY}
                    /\ session' = <<newSession>>
                    /\ last' = Response("login", args, <<>>, TRUE, "", <<newSession>>)
        /\ UNCHANGED <<users, txs, reqs, msgs, now>>

(* storageService.getStoredSession, and App init's setSession *)
getStoredSession ==
    /\ IF SESSION_KEY \in unparseable
       THEN /\ last' = Response("getStoredSession", <<>>, <<>>, TRUE, "", <<>>)
            /\ UNCHANGED <<stored, session>>
       ELSE IF stored = <<>>
       THEN /\ last' = Response("getStoredSession", <<>>, <<>>, TRUE, "", <<>>)
            /\ UNCHANGED <<stored, session>>
       ELSE IF isExpired(stored[1], now)
       THEN /\ stored' = <<>>
            /\ last' = Response("getStoredSession", <<>>, <<>>, TRUE, "", <<>>)
            /\ UNCHANGED session
       ELSE /\ last' = Response("getStoredSession", <<>>, <<>>, TRUE, "", stored)
            /\ session' = stored
            /\ UNCHANGED stored
    /\ UNCHANGED <<users, txs, reqs, msgs, now, unparseable>>

(* storageService.logout, and handleLogout's setSession(null) *)
logout ==
    /\ stored' = <<>>
    /\ unparseable' = unparseable \ {SESSION_KEY}
    /\ session' = <<>>
    /\ last' = Response("logout", <<>>, <<>>, TRUE, "", <<>>)
    /\ UNCHANGED <<users, txs, reqs, msgs, now>>

(* Date.now() moves on by d milliseconds, up to the clock reading max *)
Tick(d, max) ==
    /\ now + d <= max
    /\ now' = now + d
    /\ last' = NoCall
    /\ UNCHANGED <<users, txs, reqs, msgs, stored, session, unparseable>>

(* storageService.sendMessage *)
sendMessage(s, text, toId) ==
    LET args == [text |-> text, toId |-> toId]
        newMessage == [id |-> TimeId("msg", now), familyId |-> s.familyId,
                       fromId |-> s.userId, fromRole |-> s.role, toId |-> toId,
                       text |-> text, timestamp |-> now, isRead |-> FALSE]
    IN  /\ IF MESSAGES_KEY \in unparseable
           THEN /\ last' = Raised("sendMessage", args, <<s>>)
                /\ UNCHANGED msgs
           ELSE /\ msgs' = prepend(newMessage, msgs)
                /\ last' = Response("sendMessage", args, <<s>>, TRUE, "", <<newMessage>>)
        /\ UNCHANGED <<users, txs, reqs, stored, session, now, unparseable>>

(* storageService.saveTransaction *)
saveTransaction(s, tx) ==
    /\ IF TRANSACTIONS_KEY \in unparseable
       THEN /\ last' = Raised("saveTransaction", [tx |-> tx], <<s>>)
            /\ UNCHANGED txs
       ELSE /\ txs' = prepend(tx, txs)
            /\ last' = Response("saveTransaction", [tx |-> tx], <<s>>, TRUE, "", <<tx>>)
    /\ UNCHANGED <<users, reqs, msgs, stored, session, now, unparseable>>

(* storageService.createRequest *)
createRequest(s, amount, reason) ==
    LET args == [amount |-> amount, reason |-> reason]
        newRequest == [id |-> TimeId("req", now), childId |-> s.userId,
                       amount |-> amount, reason |-> reason,
                       status |-> "PENDING", timestamp |-> now]
    IN  /\ IF REQUESTS_KEY \in unparseable
           THEN /\ last' = Raised("createRequest", args, <<s>>)
                /\ UNCHANGED reqs
           ELSE /\ reqs' = prepend(newRequest, reqs)
                /\ last' = Response("createRequest", args, <<s>>, TRUE, "", <<newRequest>>)
        /\ UNCHANGED <<users, txs, msgs, stored, session, now, unparseable>>

(* Array.prototype.findIndex on the request ids; 0 stands for -1 *)
findIndex(rs, requestId) ==
    LET hits == {i \in 1..Len(rs) : rs[i].id = requestId}
    IN  IF hits = {} THEN 0 ELSE CHOOSE i \in hits : \A j \in hits : i <= j

(* storageService.updateRequestStatus *)
updateRequestStatus(s, requestId, status) ==
    LET args == [requestId |-> requestId, status |-> status]
        idx == findIndex(reqs, requestId)
    IN  /\ IF ~isHost(s)
           THEN /\ last' = Response("updateRequestStatus", args, <<s>>, FALSE,
                                    "Unauthorized.", <<>>)
                /\ UNCHANGED reqs
           ELSE IF REQUESTS_KEY \in unparseable
           THEN /\ last' = Raised("updateRequestStatus", args, <<s>>)
                /\ UNCHANGED reqs
           ELSE IF idx = 0
           THEN /\ last' = Response("updateRequestStatus", args, <<s>>, FALSE,
                                    "Not found.", <<>>)
                /\ UNCHANGED reqs
           ELSE /\ reqs' = [reqs EXCEPT ![idx].status = status]
                /\ last' = Response("updateRequestStatus", args, <<s>>, TRUE, "", <<TRUE>>)
        /\ UNCHANGED <<users, txs, msgs, stored, session, now, unparseable>>

(* storageService.getUsers, getTransactions, getRequests, getMessages: *)
(* the parsed item, or [] when there is none                           *)
getItems(op, key, items) ==
    /\ last' = IF key \in unparseable
               THEN Raised(op, <<>>, <<>>)
               ELSE Response(op, <<>>, <<>>, TRUE, "", items)
    /\ UNCHANGED <<users, txs, reqs, msgs, stored, session, now, unparseable>>

getUsers == getItems("getUsers", USERS_KEY, users)

getTransactions == getItems("getTransactions", TRANSACTIONS_KEY, txs)

getRequests == getItems("getRequests", REQUESTS_KEY, reqs)

getMessages == getItems("getMessages", MESSAGES_KEY, msgs)

(* The medium: the item of a key is replaced by text that is not JSON. *)
(* What the key held is gone.                                          *)
Corrupt(key) ==
    /\ unparseable' = unparseable \cup {key}
    /\ users' = IF key = USERS_KEY THEN <<>> ELSE users
    /\ txs' = IF key = TRANSACTIONS_KEY THEN <<>> ELSE txs
    /\ reqs' = IF key = REQUESTS_KEY THEN <<>> ELSE reqs
    /\ msgs' = IF key = MESSAGES_KEY THEN <<>> ELSE msgs
    /\ stored' = IF key = SESSION_KEY THEN <<>> ELSE stored
    /\ last' = NoCall
    /\ UNCHANGED <<session, now>>

----------------------------------------------------------------------------
(* The transaction a caller hands to saveTransaction: id and timestamp are *)
(* built from Date.now() at the call sites of App.tsx.                     *)
NewTx(prefix, userId, amount, type, category) ==
    [id |-> TimeId(prefix, now), userId |-> userId, amount |-> amount,
     type |-> type, category |-> category, description |-> "d",
     timestamp |-> now]

(* An id that no identity of the store carries *)
UnknownId == RandId("u", 0)

RequestIds == {reqs[i].id : i \in 1..Len(reqs)} \cup {TimeId("req", MaxNow + 1)}

----------------------------------------------------------------------------
(* What App.tsx keeps of the store and shows of the messages *)

(* The filter of filteredMsgs, had it looked at the selected target alone *)
msgsOfTarget(ms, s, msgTarget) ==
    SelectSeq(ms, LAMBDA m : m.toId = msgTarget \/ m.fromId = msgTarget)

(* sync: identities and messages of the session's cluster, every *)
(* transaction and every request                                 *)
sync(s) ==
    [users |-> SelectSeq(users, LAMBDA user : user.familyId = s.familyId),
     txs   |-> txs,
     reqs  |-> reqs,
     msgs  |-> SelectSeq(msgs, LAMBDA msg : msg.familyId = s.familyId)]

(* filteredMsgs: the messages of the conversation msgTarget *)
filteredMsgs(ms, s, msgTarget) ==
    SelectSeq(ms, LAMBDA m :
        IF msgTarget = BroadcastId
        THEN m.toId = BroadcastId
        ELSE \/ (m.fromId = s.userId /\ m.toId = msgTarget)
             \/ (m.fromId = msgTarget /\ m.toId = s.userId))

(* The values msgTarget takes: the sentinel and the ids of identities; *)
(* the service is also called with an id that no identity has          *)
MsgTargets == UserIds \cup {BroadcastId, UnknownId}

----------------------------------------------------------------------------
(* The calls a client makes, with the session it holds.  Each collection *)
(* is capped: a call that would grow it past the cap is not made.         *)

Signup(Fs, Hs) ==
    \E f \in Fs, h \in Hs : Len(users) < MaxUsers /\ signupCluster(f, h, "p")

Provision(Hs) ==
    \E h \in Hs, k \in 1..NumRand :
        /\ session # <<>>
        /\ Len(users) < MaxUsers
        /\ provisionMember(session[1], h, "p", k)

Login(Fs, Hs, Ps) == \E f \in Fs, h \in Hs, p \in Ps : login(f, h, p)

GetStoredSession == getStoredSession

Logout == logout

SendMessage(Ts, max) ==
    \E to \in Ts :
        /\ session # <<>>
        /\ Len(msgs) < max
        /\ sendMessage(session[1], "hi", to)

SaveTransaction(Us, As, Ts, max) ==
    \E u \in Us, a \in As, t \in Ts :
        /\ session # <<>>
        /\ Len(txs) < max
        /\ saveTransaction(session[1], NewTx("tx", u, a, t, "Grant"))

CreateRequest(As, Rs, max) ==
    \E a \in As, r \in Rs :
        /\ session # <<>>
        /\ Len(reqs) < max
        /\ createRequest(session[1], a, r)

UpdateRequestStatus ==
    \E id \in RequestIds, st \in RequestStatus :
        session # <<>> /\ updateRequestStatus(session[1], id, st)

(* The requests as a tab may show them with the Approve and Veto buttons: *)
(* the reqs state is what sync last read, so a request whose stored       *)
(* status has changed since is still shown as PENDING.                    *)
PendingViews == {[reqs[i] EXCEPT !.status = "PENDING"] : i \in 1..Len(reqs)}

(* The onClick handler of Approve: updateRequestStatus, then              *)
(* saveTransaction whatever the first call returned.                      *)
ApproveHandler(s, req) ==
    LET idx == findIndex(reqs, req.id)
        tx  == [NewTx("tx_appr", req.childId, req.amount, "CREDIT", "Grant")
                  EXCEPT !.description = "Funding Ratified: " \o req.reason]
    IN  /\ REQUESTS_KEY \notin unparseable
        /\ TRANSACTIONS_KEY \notin unparseable
        /\ reqs' = IF isHost(s) /\ idx # 0
                   THEN [reqs EXCEPT ![idx].status = "APPROVED"]
                   ELSE reqs
        /\ txs' = prepend(tx, txs)
        /\ last' = Response("saveTransaction", [tx |-> tx], <<s>>, TRUE, "", <<tx>>)
        /\ UNCHANGED <<users, msgs, stored, session, now, unparseable>>

(* The buttons are rendered for a HOST session on a request shown PENDING *)
Approve ==
    \E req \in PendingViews :
        /\ session # <<>>
        /\ isHost(session[1])
        /\ Len(txs) < MaxTxs
        /\ ApproveHandler(session[1], req)

(* The onClick handler of Veto *)
Veto ==
    \E req \in PendingViews :
        /\ session # <<>>
        /\ isHost(session[1])
        /\ updateRequestStatus(session[1], req.id, "REJECTED")

(* The clock readings around the issue of a session and around its expiry *)
ClockReadings ==
    {k * SESSION_DURATION + e : k \in 0..1, e \in 0..MaxSlack}

ClockStep == \E t \in ClockReadings : t > now /\ Tick(t - now, MaxNow)

ClockTick == Tick(1, MaxSlack)

ClockExpire == Tick(SESSION_DURATION + 1, MaxNow)

----------------------------------------------------------------------------
(* Registry and authentication: every spelling of cluster id and handle.  *)
(* signupCluster and provisionMember are the only writers of users.  The  *)
(* clock stands still here: the ids built from its reading coincide, and  *)
(* no decision of the registry reads an id.                               *)
NextRegistry ==
    \/ Signup(FamilyInputs, HandleInputs)
    \/ Provision(HandleInputs)
    \/ Login(FamilyInputs, HandleInputs, {"p"})
    \/ Logout

SpecRegistry == Init /\ [][NextRegistry]_vars

(* Session lifetime: one cluster, the clock running up to and past the *)
(* expiry.  login, logout and getStoredSession are the only writers of  *)
(* the persisted session.                                               *)
NextSession ==
    \/ Signup({<<"f">>}, {<<"a">>})
    \/ Provision({<<"b">>})
    \/ Login({<<"f">>}, {<<"a">>, <<"b">>}, PassInputs)
    \/ GetStoredSession
    \/ Logout
    \/ ClockStep

SpecSession == Init /\ [][NextSession]_vars

(* A client that keeps its session while the clock runs past the expiry, *)
(* and makes every mutating call with it.                                *)
NextStale ==
    \/ Signup({<<"f">>}, {<<"a">>})
    \/ Login({<<"f">>}, {<<"a">>}, {"p"})
    \/ GetStoredSession
    \/ Provision({<<"b">>})
    \/ SendMessage(UserIds \cup {BroadcastId}, MaxOnce)
    \/ SaveTransaction(UserIds, {3}, {"CREDIT"}, MaxOnce)
    \/ CreateRequest({3}, {"books"}, MaxOnce)
    \/ UpdateRequestStatus
    \/ ClockExpire

SpecStale == Init /\ [][NextStale]_vars

(* Ledger: two clusters and their requests *)
NextLedger ==
    \/ Signup({<<"f">>, <<"g">>}, {<<"a">>})
    \/ Provision({<<"b">>})
    \/ Login({<<"f">>, <<"g">>}, {<<"a">>, <<"b">>}, {"p"})
    \/ SaveTransaction(UserIds, {3}, {"CREDIT"}, MaxOnce)
    \/ CreateRequest({3}, {"books"}, MaxReqs)
    \/ UpdateRequestStatus
    \/ ClockTick

SpecLedger == Init /\ [][NextLedger]_vars

(* Balances: one cluster, transactions of every identity of the store,  *)
(* of both kinds and of several amounts.  saveTransaction is the only   *)
(* writer of txs.                                                       *)
NextBalance ==
    \/ Signup({<<"f">>}, {<<"a">>})
    \/ Provision({<<"b">>})
    \/ Login({<<"f">>}, {<<"a">>}, {"p"})
    \/ SaveTransaction(UserIds, Amounts, TransactionType, MaxTxs)

SpecBalance == Init /\ [][NextBalance]_vars

(* Authentication: two clusters whose hosts signed up under one handle,  *)
(* in a spelling that the normalisation changes, logins under every     *)
(* spelling and secret, at several clock readings.  login is the only   *)
(* writer of what a login step leaves in the session slot.              *)
NextLogin ==
    \/ Signup({<<" ", "F">>, <<"g">>}, {<<"A", " ">>})
    \/ Provision({<<"b">>})
    \/ Login(FamilyInputs, HandleInputs, PassInputs)
    \/ ClockTick

SpecLogin == Init /\ [][NextLogin]_vars

(* Every operation that answers with a ServiceResponse, called by a HOST *)
(* and by a MEMBER, with rights and without, on names taken and free.    *)
NextFrame ==
    \/ Signup({<<"f">>}, {<<"a">>})
    \/ Provision({<<"b">>})
    \/ Login({<<"f">>}, {<<"a">>, <<"b">>}, {"p"})
    \/ SendMessage({BroadcastId}, MaxOnce)
    \/ SaveTransaction(OwnId, {3}, {"DEBIT"}, MaxOnce)
    \/ CreateRequest({3}, {"books"}, MaxOnce)
    \/ UpdateRequestStatus

SpecFrame == Init /\ [][NextFrame]_vars

(* What the writers of the ledger accept: amounts of either sign and    *)
(* zero, reasons empty or not, owners stored or not.                    *)
NextValidation ==
    \/ Signup({<<"f">>}, {<<"a">>})
    \/ Provision({<<"b">>})
    \/ Login({<<"f">>}, {<<"a">>, <<"b">>}, {"p"})
    \/ SaveTransaction(UserIds \cup {UnknownId}, AmountInputs, {"CREDIT"}, MaxOnce)
    \/ CreateRequest(AmountInputs, ReasonInputs, MaxOnce)
    \/ UpdateRequestStatus

SpecValidation == Init /\ [][NextValidation]_vars

(* The running balance: transactions of both kinds and several amounts, *)
(* saved at the same clock reading and at different ones.               *)
NextSeries ==
    \/ Signup({<<"f">>}, {<<"a">>})
    \/ Login({<<"f">>}, {<<"a">>}, {"p"})
    \/ SaveTransaction(UserIds, Amounts, TransactionType, MaxTxs)
    \/ ClockTick

SpecSeries == Init /\ [][NextSeries]_vars

(* The insights over what saveTransaction accepts, read within the day  *)
(* of the first transaction and after it.                               *)
NextInsights ==
    \/ Signup({<<"f">>}, {<<"a">>})
    \/ Login({<<"f">>}, {<<"a">>}, {"p"})
    \/ SaveTransaction(UserIds, AmountInputs, TransactionType, MaxTxs)
    \/ ClockStep

SpecInsights == Init /\ [][NextInsights]_vars

(* Every operation of the service on a store of which some items have   *)
(* been made unparseable, before or between the calls.                   *)
NextCorrupt ==
    \/ Signup({<<"f">>}, {<<"a">>})
    \/ Provision({<<"b">>})
    \/ Login({<<"f">>}, {<<"a">>}, {"p"})
    \/ GetStoredSession
    \/ Logout
    \/ SendMessage({BroadcastId}, MaxOnce)
    \/ SaveTransaction(OwnId, {3}, {"CREDIT"}, MaxOnce)
    \/ CreateRequest({3}, {"books"}, MaxOnce)
    \/ UpdateRequestStatus
    \/ getUsers
    \/ getTransactions
    \/ getRequests
    \/ getMessages
    \/ \E key \in Keys : Cardinality(unparseable) < MaxOnce /\ Corrupt(key)

SpecCorrupt == Init /\ [][NextCorrupt]_vars

(* Requests resolved through the Approve and Veto buttons, from views    *)
(* that are refreshed or not.                                            *)
NextApproval ==
    \/ Signup({<<"f">>}, {<<"a">>})
    \/ Provision({<<"b">>})
    \/ Login({<<"f">>}, {<<"a">>, <<"b">>}, {"p"})
    \/ CreateRequest({3}, {"books"}, MaxReqs)
    \/ Approve
    \/ Veto
    \/ ClockTick

SpecApproval == Init /\ [][NextApproval]_vars

(* Messages sent to the broadcast sentinel, to the ids of stored        *)
(* identities and to an id no identity has, read by every identity of   *)
(* two clusters.  The clock stands still, so the two hosts have one id  *)
(* and are told apart by their cluster.                                 *)
NextMessages ==
    \/ Signup({<<"f">>, <<"g">>}, {<<"a">>})
    \/ Provision({<<"b">>})
    \/ Login({<<"f">>, <<"g">>}, {<<"a">>, <<"b">>}, {"p"})
    \/ SendMessage(MsgTargets, MaxOnce)

SpecMessages == Init /\ [][NextMessages]_vars

(* Every writer of the collections, called in every order and more than *)
(* once.  The clock stands still: the records of a collection differ by *)
(* amount and status, and updateRequestStatus selects the first request *)
(* that carries the id it is given.                                     *)
NextAppend ==
    \/ Signup({<<"f">>}, {<<"a">>})
    \/ Provision({<<"b">>})
    \/ Login({<<"f">>}, {<<"a">>}, {"p"})
    \/ SaveTransaction(OwnId, Amounts, {"CREDIT"}, MaxRecords)
    \/ CreateRequest({3}, {"books"}, MaxRecords)
    \/ SendMessage({BroadcastId}, MaxRecords)
    \/ UpdateRequestStatus

SpecAppend == Init /\ [][NextAppend]_vars

----------------------------------------------------------------------------
(* C1: after any sequence of signupCluster and provisionMember calls, no   *)
(* two stored identities have the same (cluster id, handle) pair when the  *)
(* two are compared trimmed and case-insensitively.                        *)
SameIdentityKey(u, v) ==
    /\ Normalize(u.familyId) = Normalize(v.familyId)
    /\ \/ Normalize(u.name) = Normalize(v.name)
       \/ Normalize(u.username) = Normalize(v.username)

C1_UniqueIdentityKey ==
    \A i, j \in 1..Len(users) :
        i # j => ~SameIdentityKey(users[i], users[j])

(* A second spelling of a handle already in the cluster has been refused, *)
(* by signupCluster or by provisionMember, with identities stored under   *)
(* a spelling that normalisation changed.                                 *)
C1_Witness ==
    /\ last.op \in {"signupCluster", "provisionMember"}
    /\ ~last.success
    /\ last.error \in {"Identity handle already provisioned in this cluster.",
                       "Member handle already provisioned."}
    /\ Len(users) >= 2
    /\ \E i \in 1..Len(users) : users[i].name # users[i].username

----------------------------------------------------------------------------
(* C2: for the stored transaction sequence and any identity, the balance  *)
(* is the sum of that identity's CREDIT amounts minus the sum of its      *)
(* DEBIT amounts, is the same for every permutation of the sequence, is   *)
(* unchanged by removing the other identities' transactions, and is 0     *)
(* when the identity has no transaction.                                  *)
RECURSIVE SumAmounts(_, _)
SumAmounts(ts, I) ==
    IF I = {} THEN 0
    ELSE LET i == CHOOSE k \in I : TRUE
         IN  ts[i].amount + SumAmounts(ts, I \ {i})

Entries(ts, uid, type) ==
    {i \in 1..Len(ts) : ts[i].userId = uid /\ ts[i].type = type}

Orderings(n) ==
    {p \in [1..n -> 1..n] : \A i, j \in 1..n : p[i] = p[j] => i = j}

Permuted(ts, p) == [i \in 1..Len(ts) |-> ts[p[i]]]

Owners == UserIds \cup {UnknownId}

----------------------------------------------------------------------------
(* The identities that carry the id uid *)
IdentitiesWithId(uid) == {i \in 1..Len(users) : users[i].id = uid}

InCluster(uid, fid) ==
    \E i \in IdentitiesWithId(uid) : users[i].familyId = fid

(* The step is a call of op: every call leaves its response in last *)
Returned(op) == last'.op = op

Terminal == {"APPROVED", "REJECTED"}

(* C3: every request is created with status PENDING, and once a request   *)
(* is APPROVED or REJECTED every later updateRequestStatus call fails and *)
(* leaves its status unchanged: a status never returns to PENDING and     *)
(* never switches between APPROVED and REJECTED.                          *)
C3_StatusIsFinal ==
    [][/\ Len(reqs') > Len(reqs) => reqs'[1].status = "PENDING"
       /\ \A i \in 1..Len(reqs) :
             reqs[i].status \in Terminal =>
                 /\ reqs'[i + Len(reqs') - Len(reqs)].status = reqs[i].status
                 /\ (Returned("updateRequestStatus")
                       /\ findIndex(reqs, last'.args.requestId) = i)
                     => ~last'.success]_vars

(* C4: updateRequestStatus changes a request's status only when the       *)
(* session's role is HOST and the requester belongs to the session's      *)
(* cluster; any other session is denied and the requests are unchanged.   *)
C4_ResolveOnlyByClusterHost ==
    [][Returned("updateRequestStatus") =>
          LET s == last'.sess[1]
              permitted(i) == isHost(s) /\ InCluster(reqs[i].childId, s.familyId)
          IN  /\ \A i \in 1..Len(reqs) :
                    reqs'[i].status # reqs[i].status => permitted(i)
              /\ ~isHost(s) => ~last'.success /\ reqs' = reqs]_vars

(* C5: provisionMember with a session whose role is not HOST fails with   *)
(* the authorization error and adds no identity; a MEMBER identity is     *)
(* only ever added by a provisionMember call made with a HOST session,    *)
(* in that session's cluster and with that session's identity as parent.  *)
C5_OnlyHostProvisions ==
    [][/\ (Returned("provisionMember") /\ last'.sess[1].role # "HOST") =>
             /\ ~last'.success
             /\ last'.error = "Authorization restricted to Host Nodes."
             /\ users' = users
       /\ \A i \in 1..Len(users') :
             (i > Len(users) /\ users'[i].role = "MEMBER") =>
                 /\ Returned("provisionMember")
                 /\ last'.success
                 /\ last'.sess[1].role = "HOST"
                 /\ users'[i].familyId = last'.sess[1].familyId
                 /\ users'[i].parentId = <<last'.sess[1].userId>>
       /\ \A i \in 1..Len(users) : users'[i] = users[i]]_vars

(* A MEMBER has logged in and has been refused by provisionMember *)
C5_Witness ==
    /\ last.op = "provisionMember"
    /\ last.sess[1].role = "MEMBER"
    /\ ~last.success
    /\ \E i \in 1..Len(users) :
          users[i].role = "MEMBER" /\ users[i].id = last.sess[1].userId

(* C6: saveTransaction appends a transaction whose owner is not the       *)
(* session's identity only if the session's role is HOST and the owner    *)
(* belongs to the session's cluster; for any other session the call       *)
(* fails and the transactions are unchanged.                              *)
C6_CreditOthersOnlyByClusterHost ==
    [][Returned("saveTransaction") =>
          LET s == last'.sess[1]
              tx == last'.data[1]
          IN  tx.userId # s.userId =>
                 IF isHost(s) /\ InCluster(tx.userId, s.familyId)
                 THEN TRUE
                 ELSE ~last'.success /\ txs' = txs]_vars

(* C7: createRequest succeeds only for a MEMBER session, a HOST session   *)
(* is denied and nothing is appended; on success the new request's        *)
(* childId is the session's identity.                                     *)
C7_OnlyMemberRequests ==
    [][Returned("createRequest") =>
          LET s == last'.sess[1]
          IN  /\ last'.success => s.role = "MEMBER" /\ reqs'[1].childId = s.userId
              /\ s.role = "HOST" => ~last'.success /\ reqs' = reqs]_vars

(* C8: no mutating call takes effect when the expiry of the session it is *)
(* given is already reached at the moment of the call.                    *)
Mutating ==
    {"provisionMember", "saveTransaction", "createRequest",
     "updateRequestStatus", "sendMessage"}

C8_ExpiredSessionMutatesNothing ==
    [][(\E op \in Mutating : Returned(op)) /\ last'.sess[1].exp <= now =>
          /\ ~last'.success
          /\ <<users, txs, reqs, msgs>>' = <<users, txs, reqs, msgs>>]_vars

(* C9: getStoredSession never returns a session whose expiry is strictly  *)
(* earlier than the clock reading of the call.                            *)
C9_NoExpiredSessionReturned ==
    (last.op = "getStoredSession" /\ last.data # <<>>) => ~(last.data[1].exp < now)

(* getStoredSession has found a persisted session past its expiry: it     *)
(* returned absent and removed it, while the client still holds it.       *)
C9_Witness ==
    /\ last.op = "getStoredSession"
    /\ last.data = <<>>
    /\ stored = <<>>
    /\ session # <<>>
    /\ session[1].exp < now

(* C10, as stated: a persisted session with exp <= now, the instant       *)
(* exp = now included, is deleted and absent is returned; with exp > now  *)
(* it is returned and the persisted slot is unchanged.                    *)
C10_ExpiresAtExp ==
    [][(Returned("getStoredSession") /\ stored # <<>>) =>
          IF stored[1].exp <= now
          THEN stored' = <<>> /\ last'.data = <<>>
          ELSE stored' = stored /\ last'.data = stored]_vars

(* C10, amended: a persisted session with exp < now is deleted and absent *)
(* is returned; with exp >= now, the instant exp = now included, it is    *)
(* returned and the persisted slot is unchanged.                          *)
C10_ExpiresAfterExp ==
    [][(Returned("getStoredSession") /\ stored # <<>>) =>
          IF stored[1].exp < now
          THEN stored' = <<>> /\ last'.data = <<>>
          ELSE stored' = stored /\ last'.data = stored]_vars

(* getStoredSession has returned the persisted session at the very clock  *)
(* reading of its expiry.                                                 *)
C10_Witness ==
    /\ last.op = "getStoredSession"
    /\ last.data # <<>>
    /\ last.data = stored
    /\ stored[1].exp = now

----------------------------------------------------------------------------
(* C11: login succeeds if and only if some stored identity has the        *)
(* trimmed, lower-cased cluster id, the trimmed, lower-cased handle and   *)
(* the very secret that were given; on success the returned session       *)
(* carries that identity's id, cluster id and role (HOST for an identity  *)
(* created by signupCluster), its expiry is the clock reading of the call *)
(* plus 24 hours, and that session is the persisted session.              *)
Matching(a) ==
    {i \in 1..Len(users) :
        /\ users[i].familyId = Normalize(a.familyId)
        /\ users[i].username = Normalize(a.handle)
        /\ users[i].password = a.pass}

C11_LoginMatchesIdentity ==
    [][Returned("login") =>
          /\ last'.success <=> Matching(last'.args) # {}
          /\ last'.success =>
                \E i \in Matching(last'.args) :
                    LET s == last'.data[1]
                    IN  /\ s.userId = users[i].id
                        /\ s.familyId = users[i].familyId
                        /\ s.role = users[i].role
                        /\ users[i].parentId = <<>> => s.role = "HOST"
                        /\ s.exp = now + SESSION_DURATION
                        /\ stored' = <<s>>]_vars

(* A login typed in a spelling that normalisation changes has succeeded   *)
(* at a clock reading past 0, for a HOST, while the same handle is also   *)
(* stored with another cluster id.                                        *)
C11_Witness ==
    /\ last.op = "login"
    /\ last.success
    /\ last.args.familyId # Normalize(last.args.familyId)
    /\ last.args.handle # Normalize(last.args.handle)
    /\ now > 0
    /\ last.data[1].role = "HOST"
    /\ last.data[1].exp = now + SESSION_DURATION
    /\ stored = last.data
    /\ \E i \in 1..Len(users) :
          /\ users[i].familyId # Normalize(last.args.familyId)
          /\ users[i].username = Normalize(last.args.handle)

----------------------------------------------------------------------------
(* C12: a refused login returns success = false, one and the same error   *)
(* and no data, whichever of cluster id, handle or secret was wrong and   *)
(* whatever the store holds, so that no two refused logins differ in      *)
(* their result; it leaves the identities and the persisted session as    *)
(* they were.                                                             *)
C12_RefusedLoginTellsNothing ==
    [][(Returned("login") /\ ~last'.success) =>
          /\ last'.error = "Access Denied. Invalid credentials or Cluster ID."
          /\ last'.data = <<>>
          /\ users' = users
          /\ stored' = stored]_vars

(* A login with the cluster id and handle of a stored identity and a      *)
(* wrong secret has been refused while another session is persisted.      *)
C12_Witness ==
    /\ last.op = "login"
    /\ ~last.success
    /\ findUser(users, Normalize(last.args.familyId), Normalize(last.args.handle))
    /\ \E i \in 1..Len(users) : users[i].familyId # Normalize(last.args.familyId)
    /\ stored # <<>>

----------------------------------------------------------------------------
(* C13: at most one session is persisted: a successful login replaces     *)
(* the persisted session by the one it issues, nothing else persists a    *)
(* session, getStoredSession returns the persisted session when it has    *)
(* not expired, and logout, with or without a persisted session, leaves   *)
(* none, so that getStoredSession returns absent until the next           *)
(* successful login.                                                      *)
C13_OneSessionPersisted ==
    [][/\ Len(stored') <= 1
       /\ (Returned("login") /\ last'.success) => stored' = last'.data
       /\ Returned("logout") => stored' = <<>>
       /\ Returned("getStoredSession") =>
             /\ stored = <<>> => last'.data = <<>>
             /\ (stored # <<>> /\ now <= stored[1].exp) => last'.data = stored
             /\ last'.data \in {<<>>, stored}
       /\ (stored' # stored /\ stored' # <<>>) =>
             Returned("login") /\ last'.success]_vars

(* After a MEMBER was provisioned, which takes a login, and a logout,     *)
(* which alone empties the session the client holds, getStoredSession     *)
(* has returned absent well before any expiry.                            *)
C13_Witness ==
    /\ last.op = "getStoredSession"
    /\ last.data = <<>>
    /\ stored = <<>>
    /\ session = <<>>
    /\ now < SESSION_DURATION
    /\ \E i \in 1..Len(users) : users[i].role = "MEMBER"

----------------------------------------------------------------------------
(* C14: whenever signupCluster, provisionMember, login, saveTransaction,  *)
(* createRequest, updateRequestStatus or sendMessage returns success =    *)
(* false, the identities, transactions, requests and messages and the     *)
(* persisted session are exactly as they were before the call.            *)
Answering ==
    {"signupCluster", "provisionMember", "login", "saveTransaction",
     "createRequest", "updateRequestStatus", "sendMessage"}

C14_FailureChangesNothing ==
    [][((\E op \in Answering : Returned(op)) /\ ~last'.success) =>
          <<users, txs, reqs, msgs, stored>>' = <<users, txs, reqs, msgs, stored>>]_vars

(* A MEMBER has been refused by updateRequestStatus on a stored request,  *)
(* with every collection and the session slot filled.                     *)
C14_Witness ==
    /\ last.op = "updateRequestStatus"
    /\ ~last.success
    /\ last.error = "Unauthorized."
    /\ findIndex(reqs, last.args.requestId) # 0
    /\ Len(users) >= 2
    /\ txs # <<>>
    /\ msgs # <<>>
    /\ stored # <<>>

----------------------------------------------------------------------------
(* C15: every stored transaction has amount > 0: saveTransaction with a   *)
(* zero or negative amount fails and appends nothing.                     *)
C15_OnlyPositiveTransactions ==
    [][/\ \A i \in 1..Len(txs') : txs'[i].amount > 0
       /\ (Returned("saveTransaction") /\ last'.args.tx.amount <= 0) =>
             ~last'.success /\ txs' = txs]_vars

(* C16: createRequest with amount <= 0 or an empty reason fails and       *)
(* appends no request; every stored request has amount > 0 and a reason   *)
(* that is not empty.                                                     *)
C16_OnlyValidRequests ==
    [][/\ \A i \in 1..Len(reqs') :
             reqs'[i].amount > 0 /\ reqs'[i].reason # ""
       /\ (Returned("createRequest")
              /\ (last'.args.amount <= 0 \/ last'.args.reason = "")) =>
             ~last'.success /\ reqs' = reqs]_vars

(* C17: the owner of every stored transaction and the requester of every  *)
(* stored request is the id of a stored identity.                         *)
C17_OwnersAreStored ==
    /\ \A i \in 1..Len(txs) : txs[i].userId \in UserIds
    /\ \A i \in 1..Len(reqs) : reqs[i].childId \in UserIds

----------------------------------------------------------------------------
(* The signed sum of the transactions of ts at the first k places of the  *)
(* ordering p                                                             *)
SignedSum(ts, p, k) ==
    SumAmounts(ts, {p[j] : j \in {i \in 1..k : ts[p[i]].type = "CREDIT"}})
      - SumAmounts(ts, {p[j] : j \in {i \in 1..k : ts[p[i]].type = "DEBIT"}})

(* The series follows the ordering p of ts *)
Follows(series, ts, p) ==
    \A k \in 1..Len(ts) :
        /\ series[k].timestamp = ts[p[k]].timestamp
        /\ series[k].balance = SignedSum(ts, p, k)

C19_TiesInInsertionOrder ==
    txs # <<>> =>
        \E p \in Orderings(Len(txs)) :
            /\ \A k \in 1..(Len(txs) - 1) :
                  \/ txs[p[k]].timestamp < txs[p[k + 1]].timestamp
                  \/ /\ txs[p[k]].timestamp = txs[p[k + 1]].timestamp
                     /\ p[k] > p[k + 1]
            /\ Follows(timeSeries(txs), txs, p)

(* C20: for transactions that are not empty and hold no DEBIT the         *)
(* category distribution is empty and the liquidity index is 0; the       *)
(* liquidity index is balance / burnRate when balance > 0 and             *)
(* burnRate > 0 and 0 otherwise; and no share of a category is computed   *)
(* by dividing by a total of zero.                                        *)
C20_InsightsAreGuarded ==
    (session # <<>> /\ txs # <<>>) =>
        LET balance == balanceOf(txs, session[1].userId)
        IN  /\ debits(txs) = <<>> =>
                  /\ DOMAIN pieSlices(txs) = {}
                  /\ liquidityIndex(txs, balance, now) = Num(0)
            /\ liquidityIndex(txs, balance, now) =
                  IF balance > 0 /\ Positive(burnRate(txs, now))
                  THEN Quotient(Num(balance), burnRate(txs, now))
                  ELSE Num(0)
            /\ \A c \in DOMAIN pieSlices(txs) :
                  /\ totalSpending(txs) # 0
                  /\ pieSlices(txs)[c].percentage.is = "number"

----------------------------------------------------------------------------
(* C21: the insights are the same for the same transactions and balance   *)
(* whenever they are computed: while transactions and session stay as     *)
(* they are, burn rate and liquidity index do not change.  The category   *)
(* totals and the running series read nothing but the transactions, and   *)
(* no operator of the insights writes to the sequence it is given.        *)
C21_InsightsIgnoreTheClock ==
    [][(txs' = txs /\ session' = session /\ session # <<>> /\ txs # <<>>) =>
          LET balance == balanceOf(txs, session[1].userId)
          IN  /\ burnRate(txs, now') = burnRate(txs, now)
              /\ liquidityIndex(txs, balance, now')
                    = liquidityIndex(txs, balance, now)]_vars

----------------------------------------------------------------------------
(* C26: every cluster has one HOST: after any signupCluster and           *)
(* provisionMember calls no two HOST identities have the same cluster id. *)
C26_OneHostPerCluster ==
    \A i, j \in 1..Len(users) :
        (i # j /\ users[i].role = "HOST" /\ users[j].role = "HOST") =>
            users[i].familyId # users[j].familyId

----------------------------------------------------------------------------
(* The transactions of the identity uid *)
Own(ts, uid) == SelectSeq(ts, LAMBDA t : t.userId = uid)

(* C27: the insights shown with a session are those of the transactions   *)
(* of the session's identity: the last point of the running series is     *)
(* the balance shown, and burn rate and category totals count that        *)
(* identity's debits only.  The component is given the transactions and   *)
(* the balance that App holds.                                            *)
C27_InsightsOfOwnTransactions ==
    (session # <<>> /\ txs # <<>>) =>
        LET uid == session[1].userId
        IN  /\ timeSeries(txs)[Len(txs)].balance = balanceOf(txs, uid)
            /\ totalDebits(txs) = totalDebits(Own(txs, uid))
            /\ categoryTotals(txs) = categoryTotals(Own(txs, uid))

----------------------------------------------------------------------------
(* C29: within each collection no two records have the same id, so that   *)
(* the userId of a session names one identity and a request id names one  *)
(* request.                                                               *)
UniqueIds(rs) == \A i, j \in 1..Len(rs) : rs[i].id = rs[j].id => i = j

C29_IdsAreUnique ==
    /\ UniqueIds(users)
    /\ UniqueIds(txs)
    /\ UniqueIds(reqs)
    /\ UniqueIds(msgs)
    /\ \A i \in 1..Len(stored) :
          Cardinality(IdentitiesWithId(stored[i].userId)) = 1

----------------------------------------------------------------------------
(* C22: transactions are only ever added: after every step each           *)
(* transaction stored before it is still stored, with every field as it   *)
(* was and in the same order relative to the others.                      *)
C22_TransactionsAppendOnly ==
    [][/\ Len(txs') >= Len(txs)
       /\ \A i \in 1..Len(txs) : txs'[i + Len(txs') - Len(txs)] = txs[i]]_vars

(* A transaction was saved after other calls changed the requests and     *)
(* the messages, and on top of an earlier transaction that differs.       *)
C22_Witness ==
    /\ last.op = "saveTransaction"
    /\ Len(txs) = MaxRecords
    /\ txs[1] = last.data[1]
    /\ txs[1] # txs[Len(txs)]
    /\ reqs # <<>>
    /\ msgs # <<>>

----------------------------------------------------------------------------
(* C30: a call reads its collection and writes it back in one step, so    *)
(* in every interleaving of calls each call that reports success leaves   *)
(* its record, or its status change, in the store together with all that  *)
(* the calls before it had left there.                                    *)
C30_NoLostUpdate ==
    [][last'.success =>
          /\ Returned("saveTransaction") => txs' = <<last'.data[1]>> \o txs
          /\ Returned("createRequest") => reqs' = <<last'.data[1]>> \o reqs
          /\ Returned("sendMessage") => msgs' = <<last'.data[1]>> \o msgs
          /\ (Returned("signupCluster") \/ Returned("provisionMember")) =>
                users' = users \o <<last'.data[1]>>
          /\ Returned("updateRequestStatus") =>
                /\ Len(reqs') = Len(reqs)
                /\ \E i \in 1..Len(reqs) :
                      /\ reqs[i].id = last'.args.requestId
                      /\ reqs'[i] = [reqs[i] EXCEPT !.status = last'.args.status]
                      /\ \A j \in 1..Len(reqs) : j # i => reqs'[j] = reqs[j]]_vars

(* createRequest has returned between two status changes, both requests   *)
(* are stored, and the change made before it is still there.              *)
C30_Witness ==
    /\ last.op = "updateRequestStatus"
    /\ last.success
    /\ Len(reqs) = MaxRecords
    /\ reqs[1].status # "PENDING"
    /\ reqs[Len(reqs)].status # "PENDING"
    /\ reqs[1].status # reqs[Len(reqs)].status
    /\ Len(txs) = MaxRecords
    /\ Len(msgs) = MaxRecords

----------------------------------------------------------------------------
(* The messages shown to the session s when the conversation t is selected *)
Shown(s, t) ==
    LET view == filteredMsgs(sync(s).msgs, s, t)
    IN  {view[i] : i \in 1..Len(view)}

----------------------------------------------------------------------------
(* C24: every stored message is addressed to the broadcast sentinel or to *)
(* a stored identity of the cluster it was sent in.                       *)
C24_TargetsAreInCluster ==
    \A k \in 1..Len(msgs) :
        \/ msgs[k].toId = BroadcastId
        \/ InCluster(msgs[k].toId, msgs[k].familyId)

----------------------------------------------------------------------------
(* The credits recorded by approvals of the request r *)
Ratified(r) ==
    {k \in 1..Len(txs) :
        /\ txs[k].id[1] = "tx_appr"
        /\ txs[k].userId = r.childId
        /\ txs[k].amount = r.amount
        /\ txs[k].type = "CREDIT"
        /\ txs[k].description = "Funding Ratified: " \o r.reason}

(* C28: a request is funded at most once, and only a request whose       *)
(* status an approval has set: no request has two ratified credits, and  *)
(* a request still PENDING has none.                                     *)
C28_ApprovalFundsOnce ==
    \A i \in 1..Len(reqs) :
        (\A j \in 1..Len(reqs) :
            (reqs[j].childId = reqs[i].childId /\ reqs[j].amount = reqs[i].amount
                /\ reqs[j].reason = reqs[i].reason) => j = i)
        => /\ Cardinality(Ratified(reqs[i])) <= 1
           /\ reqs[i].status = "PENDING" => Ratified(reqs[i]) = {}

----------------------------------------------------------------------------
(* C25: no call raises an error: a call that reads an unparseable item    *)
(* returns what it returns when there is no item.                         *)
C25_UnparseableIsEmpty == ~last.raised

====
